---- MODULE Spec2Model ----
(***************************************************************************)
(* Network-simplex kernel of src/src/graph_simplex.c and the harness loop  *)
(* of src/src/main.c that calls its init()/run()/cleanup() lifecycle.      *)
(*                                                                         *)
(* Nodes are indexed 1..GRAPH_NUM_NODES (nodes[0] is initialised by the    *)
(* code and never referenced), arcs 0..GRAPH_NUM_ARCS-1.  A node pointer   *)
(* is its index, NULL is NoNode; an arc pointer is its index, NULL is      *)
(* NoArc.                                                                  *)
(*                                                                         *)
(* Two specifications share every action and differ in the values the      *)
(* generator draws:                                                        *)
(*   SpecSeed  init_network(seed) with the xorshift stream computed bit    *)
(*             for bit, for a range of seeds starting at 0xCAFEBABE;       *)
(*   Spec      init_network with the stream abstracted: every value the    *)
(*             generator draws (balance amount, tail, head, cost,          *)
(*             capacity) is chosen from a bounded set, and costs may be    *)
(*             negative (the data model allows any sign), so that the      *)
(*             pricing rule finds entering arcs and pivots happen.         *)
(* GRAPH_NUM_NODES and GRAPH_NUM_ARCS are build parameters (#ifndef-guarded *)
(* macros, 64 and 256 by default); the model is built with 3 and 4.        *)
(* SIMPLEX_ITERATIONS, a build parameter too, is the variable budget: a    *)
(* behaviour is one build, with budget 0 or MaxBudget.                     *)
(***************************************************************************)
EXTENDS Integers, Sequences, FiniteSets, TLC

\* ------------------------------------------------------------------------
\* Build parameters and bounds
\* ------------------------------------------------------------------------
GRAPH_NUM_NODES == 3
GRAPH_NUM_ARCS == 4
\* the largest SIMPLEX_ITERATIONS a build is given
MaxBudget == 3
\* the refresh period of the driver (i % 10 == 0)
REFRESH_PERIOD == 10

ARC_AT_LOWER == 0
ARC_AT_UPPER == 1
ARC_BASIC == 2

\* seeds 0xCAFEBABE .. 0xCAFEBABE + NumSeeds - 1
NumSeeds == 24
\* run() calls the harness issues after one init() (warm-up + measured)
MaxRuns == 2

NoNode == 0
NoArc == -1
NodeIds == 1..GRAPH_NUM_NODES
ArcIds == 0..(GRAPH_NUM_ARCS - 1)

\* ------------------------------------------------------------------------
\* 32-bit unsigned arithmetic on two 16-bit limbs <<hi, lo>>
\* ------------------------------------------------------------------------
RECURSIVE Xor(_, _, _)
Xor(a, b, n) ==
  IF n = 0 THEN 0 ELSE ((a + b) % 2) + 2 * Xor(a \div 2, b \div 2, n - 1)

Xor32(x, y) == <<Xor(x[1], y[1], 16), Xor(x[2], y[2], 16)>>

Shl32(x, k) ==
  LET p == 2 ^ k
      q == 2 ^ (16 - k)
  IN <<(x[1] % q) * p + (x[2] \div q), (x[2] % q) * p>>

\* x >> 17
Shr17(x) == <<0, x[1] \div 2>>

Mod32(x, m) == ((x[1] % m) * (65536 % m) + (x[2] % m)) % m

\* x ^= x << 13; x ^= x >> 17; x ^= x << 5;
xorshift(x) ==
  LET a == Xor32(x, Shl32(x, 13))
      b == Xor32(a, Shr17(a))
  IN Xor32(b, Shl32(b, 5))

\* the first n values of the stream after seed
RECURSIVE Stream(_, _)
Stream(x, n) ==
  IF n = 0 THEN <<>> ELSE LET y == xorshift(x) IN <<y>> \o Stream(y, n - 1)

SeedBase == <<51966, 47806>>
Seeds == {<<SeedBase[1], SeedBase[2] + k>> : k \in 0..(NumSeeds - 1)}


\* ------------------------------------------------------------------------
\* Test data generation: init_network
\* ------------------------------------------------------------------------
\* nodes[i].balance = 10 + (x % 90)
BalanceAmount(x) == 10 + Mod32(x, 90)
\* int tail = 1 + (x % GRAPH_NUM_NODES), likewise head
ArcEndpoint(x) == 1 + Mod32(x, GRAPH_NUM_NODES)
\* variant: costs centred on zero, so that some arcs price negative
ArcCost_signed(x) == Mod32(x, 100) - 50

\* arcs[i].cost = 1 + (x % 100)
ArcCost(x) == 1 + Mod32(x, 100)
\* arcs[i].capacity = 50 + (x % 200)
ArcCapacity(x) == 50 + Mod32(x, 200)

\* The values init_network draws from the xorshift stream: one value per
\* node 1..N (balances), then two per arc (tail; head, whose value also
\* gives cost and capacity).
SeedDraws(seed) ==
  LET s == Stream(seed, GRAPH_NUM_NODES + 2 * GRAPH_NUM_ARCS)
      t(a) == s[GRAPH_NUM_NODES + 2 * a + 1]
      h(a) == s[GRAPH_NUM_NODES + 2 * a + 2]
  IN [amount   |-> [i \in NodeIds |-> BalanceAmount(s[i])],
      tail     |-> [a \in ArcIds |-> ArcEndpoint(t(a))],
      head     |-> [a \in ArcIds |-> ArcEndpoint(h(a))],
      cost     |-> [a \in ArcIds |-> ArcCost(h(a))],
      capacity |-> [a \in ArcIds |-> ArcCapacity(h(a))]]

\* variant: no collision adjustment
AdjustHead_none(tail, head) == head

\* if (tail == head) head = (head % GRAPH_NUM_NODES) + 1;
AdjustHead(tail, head) ==
  IF tail = head THEN (head % GRAPH_NUM_NODES) + 1 ELSE head

RECURSIVE SumTo(_, _)
SumTo(f, n) == IF n = 0 THEN 0 ELSE f[n] + SumTo(f, n - 1)

\* variant: the last node is not adjusted
InitBalance_raw(amount) ==
  [i \in NodeIds |->
     IF i <= GRAPH_NUM_NODES \div 2 THEN amount[i] ELSE -amount[i]]

\* supply for 1..N/2, demand for N/2+1..N, last node adjusted
InitBalance(amount) ==
  LET raw == [i \in NodeIds |->
                IF i <= GRAPH_NUM_NODES \div 2 THEN amount[i] ELSE -amount[i]]
      total_supply == SumTo(raw, GRAPH_NUM_NODES)
  IN [i \in NodeIds |->
        IF i = GRAPH_NUM_NODES THEN raw[i] - total_supply ELSE raw[i]]

\* every arc AtLower with flow 0, then the first N-1 arcs marked Basic
InitArcs(d) ==
  [a \in ArcIds |->
     [tail     |-> d.tail[a],
      head     |-> AdjustHead(d.tail[a], d.head[a]),
      cost     |-> d.cost[a],
      capacity |-> d.capacity[a],
      flow     |-> 0,
      ident    |-> IF a <= GRAPH_NUM_NODES - 2 THEN ARC_BASIC ELSE ARC_AT_LOWER]]

\* star from node 1: nodes[i].pred = &nodes[1], basic_arc = &arcs[i - 2]
InitNodes(d) ==
  LET bal == InitBalance(d.amount)
  IN [i \in NodeIds |->
        [basic_arc   |-> IF i >= 2 THEN i - 2 ELSE NoArc,
         pred        |-> IF i >= 2 THEN 1 ELSE NoNode,
         potential   |-> 0,
         balance     |-> bal[i],
         depth       |-> 0,
         orientation |-> 0]]

init_network(d) == [nodes |-> InitNodes(d), arcs |-> InitArcs(d)]

\* The abstracted stream: every drawn value from a bounded set.  Balance
\* amounts take the generator's least value (they play no part in run());
\* as in the generator, the cost and the capacity of an arc come from one
\* drawn value.  The endpoints are the pairs the collision adjustment
\* leaves unchanged.
MinAmount == 10
ArcValues ==
  {[cost |-> -1, capacity |-> 2],
   [cost |-> 1, capacity |-> 1]}
Endpoints == {e \in NodeIds \X NodeIds : e[1] # e[2]}
ModelDraws ==
  {[amount   |-> [n \in NodeIds |-> MinAmount],
    tail     |-> [a \in ArcIds |-> e[a][1]],
    head     |-> [a \in ArcIds |-> e[a][2]],
    cost     |-> [a \in ArcIds |-> v[a].cost],
    capacity |-> [a \in ArcIds |-> v[a].capacity]] :
     e \in [ArcIds -> Endpoints], v \in [ArcIds -> ArcValues]}

\* ------------------------------------------------------------------------
\* Network simplex operations.  ns is the nodes array, as the arcs array.
\* ------------------------------------------------------------------------
\* variant: the two potentials exchanged
reduced_cost_swapped(ns, as, a) ==
  as[a].cost + ns[as[a].tail].potential - ns[as[a].head].potential

\* arc->cost - arc->tail->potential + arc->head->potential
reduced_cost(ns, as, a) ==
  as[a].cost - ns[as[a].tail].potential + ns[as[a].head].potential

\* variant: non-strict comparisons, so that a later arc replaces an equal one
RECURSIVE bea_scan_last(_, _, _, _, _)
bea_scan_last(ns, as, i, best_arc, best_rc) ==
  IF i >= GRAPH_NUM_ARCS THEN best_arc
  ELSE IF as[i].ident = ARC_BASIC THEN bea_scan_last(ns, as, i + 1, best_arc, best_rc)
  ELSE LET rc == as[i].cost - ns[as[i].tail].potential + ns[as[i].head].potential
       IN IF as[i].ident = ARC_AT_LOWER /\ rc < 0 /\ rc <= best_rc
            THEN bea_scan_last(ns, as, i + 1, i, rc)
          ELSE IF as[i].ident = ARC_AT_UPPER /\ rc > 0 /\ rc >= -best_rc
            THEN bea_scan_last(ns, as, i + 1, i, -rc)
          ELSE bea_scan_last(ns, as, i + 1, best_arc, best_rc)

\* the scan loop of primal_bea from arc i on; returns best_arc
RECURSIVE bea_scan(_, _, _, _, _)
bea_scan(ns, as, i, best_arc, best_rc) ==
  IF i >= GRAPH_NUM_ARCS THEN best_arc
  ELSE IF as[i].ident = ARC_BASIC THEN bea_scan(ns, as, i + 1, best_arc, best_rc)
  ELSE LET rc == reduced_cost(ns, as, i)
       IN IF as[i].ident = ARC_AT_LOWER /\ rc < best_rc
            THEN bea_scan(ns, as, i + 1, i, rc)
          ELSE IF as[i].ident = ARC_AT_UPPER /\ rc > -best_rc
            THEN bea_scan(ns, as, i + 1, i, -rc)
          ELSE bea_scan(ns, as, i + 1, best_arc, best_rc)

\* variant: best_rc starts at INT32_MAX, as in a plain minimum search
primal_bea_maxinit(ns, as) == bea_scan(ns, as, 0, NoArc, 2147483647)

\* entering arc, or NoArc
primal_bea(ns, as) == bea_scan(ns, as, 0, NoArc, 0)

\* while (node->pred) node = node->pred;  ends iff the chain reaches a node
\* without predecessor.  A chain of more than GRAPH_NUM_NODES steps repeats
\* a node, and the loop then never ends.
RECURSIVE WalkEnds(_, _, _)
WalkEnds(ns, node, fuel) ==
  IF ns[node].pred = NoNode THEN TRUE
  ELSE IF fuel = 0 THEN FALSE
  ELSE WalkEnds(ns, ns[node].pred, fuel - 1)

walk_terminates(ns, node) == WalkEnds(ns, node, GRAPH_NUM_NODES)

\* residual of the tree arc of node on the tail path / on the head path
tail_cap(ns, as, node) ==
  LET arc == as[ns[node].basic_arc]
  IN IF ns[node].orientation # 0 THEN arc.flow ELSE arc.capacity - arc.flow

head_cap(ns, as, node) ==
  LET arc == as[ns[node].basic_arc]
  IN IF ns[node].orientation # 0 THEN arc.capacity - arc.flow ELSE arc.flow

\* variant: cap <= max_delta, so that the last minimal arc of a walk wins
RECURSIVE ratio_walk_last(_, _, _, _, _)
ratio_walk_last(ns, as, node, on_tail, r) ==
  IF ns[node].pred = NoNode THEN r
  ELSE LET cap == IF on_tail THEN tail_cap(ns, as, node) ELSE head_cap(ns, as, node)
           r2 == IF cap <= r.delta
                   THEN [delta |-> cap, leaving |-> ns[node].basic_arc]
                   ELSE r
       IN ratio_walk_last(ns, as, ns[node].pred, on_tail, r2)

\* one path walk of ratio_test from node to the root; r = [delta, leaving]
RECURSIVE ratio_walk(_, _, _, _, _)
ratio_walk(ns, as, node, on_tail, r) ==
  IF ns[node].pred = NoNode THEN r
  ELSE LET cap == IF on_tail THEN tail_cap(ns, as, node) ELSE head_cap(ns, as, node)
           r2 == IF cap < r.delta
                   THEN [delta |-> cap, leaving |-> ns[node].basic_arc]
                   ELSE r
       IN ratio_walk(ns, as, ns[node].pred, on_tail, r2)

\* the entering arc's own bound
entering_bound(as, entering) ==
  IF as[entering].ident = ARC_AT_UPPER
    THEN as[entering].flow
    ELSE as[entering].capacity - as[entering].flow

\* [delta, leaving]; defined when both walks terminate
ratio_test(ns, as, entering) ==
  LET r0 == [delta |-> entering_bound(as, entering), leaving |-> entering]
      r1 == ratio_walk(ns, as, as[entering].tail, TRUE, r0)
  IN ratio_walk(ns, as, as[entering].head, FALSE, r1)

\* one flow-update walk of update_tree; returns the arcs array
RECURSIVE flow_walk(_, _, _, _, _)
flow_walk(ns, as, node, on_tail, delta) ==
  IF ns[node].pred = NoNode THEN as
  ELSE LET b == ns[node].basic_arc
           minus == IF on_tail THEN ns[node].orientation # 0
                               ELSE ns[node].orientation = 0
           as2 == [as EXCEPT ![b].flow = IF minus THEN @ - delta ELSE @ + delta]
       IN flow_walk(ns, as2, ns[node].pred, on_tail, delta)

\* entering->flow += delta if AtLower, -= delta otherwise
entering_flow(as, entering, delta) ==
  [as EXCEPT ![entering].flow =
     IF as[entering].ident = ARC_AT_LOWER THEN @ + delta ELSE @ - delta]

\* variant: the re-parented node also gets the depth of its new parent + 1
restructure_depth(ns, as, entering, leaving) ==
  LET as1 == [as EXCEPT ![leaving].ident =
                IF as[leaving].flow = 0 THEN ARC_AT_LOWER ELSE ARC_AT_UPPER]
      as2 == [as1 EXCEPT ![entering].ident = ARC_BASIC]
      h == as[entering].head
      ns2 == [ns EXCEPT ![h].basic_arc = entering,
                        ![h].pred = as[entering].tail,
                        ![h].orientation = 0,
                        ![h].depth = ns[as[entering].tail].depth + 1]
  IN [nodes |-> ns2, arcs |-> as2]

\* variant: the leaving arc is always reclassified AtLower
restructure_lower(ns, as, entering, leaving) ==
  LET as1 == [as EXCEPT ![leaving].ident = ARC_AT_LOWER]
      as2 == [as1 EXCEPT ![entering].ident = ARC_BASIC]
      h == as[entering].head
      ns2 == [ns EXCEPT ![h].basic_arc = entering,
                        ![h].pred = as[entering].tail,
                        ![h].orientation = 0]
  IN [nodes |-> ns2, arcs |-> as2]

\* the restructuring block of update_tree (entering != leaving)
restructure(ns, as, entering, leaving) ==
  LET as1 == [as EXCEPT ![leaving].ident =
                IF as[leaving].flow = 0 THEN ARC_AT_LOWER ELSE ARC_AT_UPPER]
      as2 == [as1 EXCEPT ![entering].ident = ARC_BASIC]
      h == as[entering].head
      ns2 == [ns EXCEPT ![h].basic_arc = entering,
                        ![h].pred = as[entering].tail,
                        ![h].orientation = 0]
  IN [nodes |-> ns2, arcs |-> as2]

update_tree(ns, as, entering, leaving, delta) ==
  LET a1 == flow_walk(ns, as, as[entering].tail, TRUE, delta)
      a2 == flow_walk(ns, a1, as[entering].head, FALSE, delta)
      a3 == entering_flow(a2, entering, delta)
  IN IF entering # leaving
       THEN restructure(ns, a3, entering, leaving)
       ELSE [nodes |-> ns, arcs |-> a3]


\* variant of the arc loop: the child gets potential - cost below the tail
\* and potential + cost above the head
RECURSIVE pot_scan_minus(_, _, _, _)
pot_scan_minus(st, as, node, i) ==
  IF i >= GRAPH_NUM_ARCS \/ st.overflow THEN st
  ELSE IF as[i].ident # ARC_BASIC THEN pot_scan_minus(st, as, node, i + 1)
  ELSE LET ns == st.nodes
           down == as[i].tail = node /\ ns[as[i].head].pred = node
           up == as[i].head = node /\ ns[as[i].tail].pred = node
           child == IF down THEN as[i].head
                    ELSE IF up THEN as[i].tail ELSE NoNode
           pot == IF down THEN ns[node].potential - as[i].cost
                  ELSE ns[node].potential + as[i].cost
       IN IF child # NoNode /\ child # node
            THEN pot_scan_minus([nodes    |-> [ns EXCEPT ![child].potential = pot],
                                 queue    |-> Append(st.queue, child),
                                 overflow |-> Len(st.queue) >= GRAPH_NUM_NODES],
                                as, node, i + 1)
            ELSE pot_scan_minus(st, as, node, i + 1)

\* The arc loop of update_potentials for the dequeued node, from arc i on.
\* st = [nodes, queue, overflow]; queue holds every entry written so far
\* (back = Len(queue)); a write at back >= GRAPH_NUM_NODES is past the end
\* of the array.
RECURSIVE pot_scan(_, _, _, _)
pot_scan(st, as, node, i) ==
  IF i >= GRAPH_NUM_ARCS \/ st.overflow THEN st
  ELSE IF as[i].ident # ARC_BASIC THEN pot_scan(st, as, node, i + 1)
  ELSE LET ns == st.nodes
           down == as[i].tail = node /\ ns[as[i].head].pred = node
           up == as[i].head = node /\ ns[as[i].tail].pred = node
           child == IF down THEN as[i].head
                    ELSE IF up THEN as[i].tail ELSE NoNode
           pot == IF down THEN ns[node].potential + as[i].cost
                  ELSE ns[node].potential - as[i].cost
       IN IF child # NoNode /\ child # node
            THEN pot_scan([nodes    |-> [ns EXCEPT ![child].potential = pot],
                           queue    |-> Append(st.queue, child),
                           overflow |-> Len(st.queue) >= GRAPH_NUM_NODES],
                          as, node, i + 1)
            ELSE pot_scan(st, as, node, i + 1)

\* while (front < back): front counts the entries dequeued so far
RECURSIVE pot_bfs(_, _, _)
pot_bfs(st, as, front) ==
  IF st.overflow \/ front >= Len(st.queue) THEN st
  ELSE pot_bfs(pot_scan(st, as, st.queue[front + 1], 0), as, front + 1)

\* [nodes, queue, overflow]
update_potentials(ns, as) ==
  pot_bfs([nodes    |-> [ns EXCEPT ![1].potential = 0],
           queue    |-> <<1>>,
           overflow |-> FALSE], as, 0)

\* total += (int64_t)arcs[i].cost * arcs[i].flow, for i = 0..GRAPH_NUM_ARCS-1
RECURSIVE cost_loop(_, _, _)
cost_loop(as, i, total) ==
  IF i >= GRAPH_NUM_ARCS THEN total
  ELSE cost_loop(as, i + 1, total + as[i].cost * as[i].flow)

\* variant: the loop starts at arc 1
compute_cost_from1(as) == cost_loop(as, 1, 0)

compute_cost(as) == cost_loop(as, 0, 0)


\* ------------------------------------------------------------------------
\* Checksum (bench.h), on 16-bit limbs
\* ------------------------------------------------------------------------
\* 0x811c9dc5
checksum_init == <<33052, 40389>>

\* csum ^= value; csum *= 0x01000193 (mod 2^32)
checksum_update(csum, value) ==
  LET x == Xor32(csum, value)
      p == x[2] * 403
  IN <<(x[1] * 403 + x[2] * 256 + (p \div 65536)) % 65536, p % 65536>>

\* (uint32_t)final_cost and (uint32_t)(final_cost >> 32) of a signed cost
\* with |cost| < 2^31
CostLow(c) ==
  IF c >= 0 THEN <<c \div 65536, c % 65536>>
  ELSE LET m == -c - 1 IN <<65535 - (m \div 65536), 65535 - (m % 65536)>>

CostHigh(c) == IF c >= 0 THEN <<0, 0>> ELSE <<65535, 65535>>

\* variant: the high word is folded in before the low word
run_checksum_swapped(final_cost, iters) ==
  checksum_update(
    checksum_update(
      checksum_update(checksum_init, CostHigh(final_cost)),
      CostLow(final_cost)),
    <<0, iters>>)

run_checksum(final_cost, iters) ==
  checksum_update(
    checksum_update(
      checksum_update(checksum_init, CostLow(final_cost)),
      CostHigh(final_cost)),
    <<0, iters>>)

\* ------------------------------------------------------------------------
\* State
\* ------------------------------------------------------------------------
VARIABLES
  nodes,       \* static node_t nodes[]
  arcs,        \* static arc_t arcs[]
  budget,      \* the SIMPLEX_ITERATIONS this build was compiled with
  commits,     \* history: update_tree calls made by the current run()
  pc,          \* "idle" | "loop" | "exit" | "hung" | "fault"
  i,           \* loop variable of kernel_run_func
  iterations,  \* pivots counted by kernel_run_func
  driver,      \* "Running" | "Converged" | "BudgetExhausted"
  results,     \* results of the run() calls completed so far
  start,       \* history: the model when the current run() began
  last         \* history: what the latest loop iteration did

vars == <<nodes, arcs, budget, commits, pc, i, iterations, driver, results, start, last>>

Budgets == {0, MaxBudget}
NoPivot == [kind |-> "none"]

InitRest ==
  /\ budget \in Budgets
  /\ commits = 0
  /\ pc = "idle"
  /\ i = 0
  /\ iterations = 0
  /\ driver = "Running"
  /\ results = <<>>
  /\ start = [nodes |-> nodes, arcs |-> arcs]
  /\ last = NoPivot

\* kernel_init_func: init_network on the exact xorshift stream of a seed
InitSeed ==
  /\ \E seed \in Seeds :
       \E net \in {init_network(SeedDraws(seed))} :
         nodes = net.nodes /\ arcs = net.arcs
  /\ InitRest

\* init_network on the abstracted stream
Init ==
  /\ \E d \in ModelDraws :
       \E net \in {init_network(d)} :
         nodes = net.nodes /\ arcs = net.arcs
  /\ InitRest

\* bench_run calls kernel->run(): the prologue of kernel_run_func
RunBegin ==
  /\ pc = "idle"
  /\ Len(results) < MaxRuns
  /\ pc' = "loop"
  /\ i' = 0
  /\ iterations' = 0
  /\ commits' = 0
  /\ driver' = "Running"
  /\ start' = [nodes |-> nodes, arcs |-> arcs]
  /\ last' = NoPivot
  /\ UNCHANGED <<nodes, arcs, budget, results>>

\* variants of the loop condition: i <= SIMPLEX_ITERATIONS, and no test
loop_continues_le(k, b) == k <= b
loop_continues_always(k, b) == TRUE

\* for (int i = 0; i < SIMPLEX_ITERATIONS; i++)
loop_continues(k, b) == k < b

\* variant: the refresh follows the 10th, 20th, ... pivot
refresh_due_tenth(k) == (k + 1) % REFRESH_PERIOD = 0

\* if (i % 10 == 0) update_potentials();
refresh_due(k) == k % REFRESH_PERIOD = 0

\* what a write past the end of queue[] in update_potentials can lead to
OverflowOutcomes == {"fault", "hung"}

\* the pivot of one loop iteration: ratio_test, update_tree and, when due,
\* update_potentials, applied to the model (ns, as) for the entering arc
pivot(ns, as, entering, k) ==
  LET r == ratio_test(ns, as, entering)
      t == update_tree(ns, as, entering, r.leaving, r.delta)
      refresh == refresh_due(k)
      p == IF refresh THEN update_potentials(t.nodes, t.arcs)
           ELSE [nodes |-> t.nodes, overflow |-> FALSE]
  IN [nodes    |-> p.nodes,
      arcs     |-> t.arcs,
      overflow |-> p.overflow,
      record   |-> [kind |-> "pivot", entering |-> entering,
                    leaving |-> r.leaving, delta |-> r.delta,
                    was |-> as[entering].ident,
                    cost_before |-> compute_cost(as),
                    cost_after |-> compute_cost(t.arcs),
                    refreshed |-> refresh]]

\* one iteration of the pivot loop (loop condition true)
Iterate ==
  /\ pc = "loop"
  /\ loop_continues(i, budget)
  /\ \E entering \in {primal_bea(nodes, arcs)} :
       IF entering = NoArc
         THEN /\ pc' = "exit"
              /\ driver' = "Converged"
              /\ last' = [kind |-> "converged"]
              /\ UNCHANGED <<nodes, arcs, i, iterations, commits>>
       ELSE IF ~(walk_terminates(nodes, arcs[entering].tail)
                 /\ walk_terminates(nodes, arcs[entering].head))
         THEN /\ pc' = "hung"
              /\ last' = [kind |-> "ratio_test", entering |-> entering]
              /\ UNCHANGED <<nodes, arcs, i, iterations, commits, driver>>
       ELSE \E q \in {pivot(nodes, arcs, entering, i)} :
              /\ nodes' = q.nodes
              /\ arcs' = q.arcs
              /\ last' = q.record
              /\ commits' = commits + 1
              /\ IF q.overflow
                   THEN /\ pc' \in OverflowOutcomes
                        /\ UNCHANGED <<i, iterations, driver>>
                   ELSE /\ i' = i + 1
                        /\ iterations' = iterations + 1
                        /\ UNCHANGED <<pc, driver>>
  /\ UNCHANGED <<budget, results, start>>

\* loop condition i < SIMPLEX_ITERATIONS false
Exhaust ==
  /\ pc = "loop"
  /\ ~loop_continues(i, budget)
  /\ pc' = "exit"
  /\ driver' = "BudgetExhausted"
  /\ UNCHANGED <<nodes, arcs, budget, commits, i, iterations, results, start, last>>

\* compute_cost, the checksum and the return of kernel_run_func
Report ==
  /\ pc = "exit"
  /\ LET final_cost == compute_cost(arcs)
     IN results' = Append(results,
                     [cost       |-> final_cost,
                      iterations |-> iterations,
                      checksum   |-> run_checksum(final_cost, iterations),
                      status     |-> 0,
                      driver     |-> driver])
  /\ pc' = "idle"
  /\ UNCHANGED <<nodes, arcs, budget, commits, i, iterations, driver, start, last>>

\* A build with a budget beyond one refresh period, on the networks whose
\* arcs all take the first of ArcValues' costs
LongBudget == 12
LongDraws == {d \in ModelDraws : \A a \in ArcIds : d.cost[a] = -1}

InitLong ==
  /\ \E d \in LongDraws :
       \E net \in {init_network(d)} :
         nodes = net.nodes /\ arcs = net.arcs
  /\ budget = LongBudget
  /\ commits = 0
  /\ pc = "idle"
  /\ i = 0
  /\ iterations = 0
  /\ driver = "Running"
  /\ results = <<>>
  /\ start = [nodes |-> nodes, arcs |-> arcs]
  /\ last = NoPivot

Next == RunBegin \/ Iterate \/ Exhaust \/ Report

Spec == Init /\ [][Next]_vars
SpecSeed == InitSeed /\ [][Next]_vars
SpecLong == InitLong /\ [][Next]_vars

\* ------------------------------------------------------------------------
\* Properties
\* ------------------------------------------------------------------------
\* between pivots: after init(), after every committed pivot, after run()
AtBoundary == pc \in {"idle", "loop", "exit"}

BasicArcs(as) == {a \in ArcIds : as[a].ident = ARC_BASIC}

\* nodes joined to the nodes of S by Basic arcs, through the arcs' endpoints
RECURSIVE BasicReach(_, _)
BasicReach(as, S) ==
  LET T == S \cup {as[a].head : a \in {b \in BasicArcs(as) : as[b].tail \in S}}
               \cup {as[a].tail : a \in {b \in BasicArcs(as) : as[b].head \in S}}
  IN IF T = S THEN S ELSE BasicReach(as, T)

\* N-1 Basic arcs that connect every node to node 1 (hence acyclic)
SpanningTree(as) ==
  /\ Cardinality(BasicArcs(as)) = GRAPH_NUM_NODES - 1
  /\ BasicReach(as, {1}) = NodeIds

RECURSIVE SumOver(_, _)
SumOver(S, f) ==
  IF S = {} THEN 0
  ELSE LET a == CHOOSE x \in S : TRUE IN f[a] + SumOver(S \ {a}, f)

\* inflow - outflow of node v
NetFlow(as, v) ==
  LET fl == [a \in ArcIds |-> as[a].flow]
  IN SumOver({a \in ArcIds : as[a].head = v}, fl)
       - SumOver({a \in ArcIds : as[a].tail = v}, fl)

\* sum of cost * flow over the arcs of every state
TotalCost(as) ==
  LET cf == [a \in ArcIds |-> as[a].cost * as[a].flow]
  IN SumOver({a \in ArcIds : as[a].ident = ARC_BASIC}, cf)
       + SumOver({a \in ArcIds : as[a].ident = ARC_AT_LOWER}, cf)
       + SumOver({a \in ArcIds : as[a].ident = ARC_AT_UPPER}, cf)

\* C1: after init() and after every committed pivot the Basic arcs are N-1
\* in number and form one spanning tree of the nodes through their own
\* endpoints.
C1_TreeInvariant == AtBoundary => SpanningTree(arcs)

\* C2: after init() and at every pivot boundary, inflow - outflow equals
\* the balance at every node.
C2_FlowConservation ==
  AtBoundary => \A v \in NodeIds : NetFlow(arcs, v) = nodes[v].balance

C5_DriverTransitions ==
  /\ commits <= budget
  /\ pc = "exit" =>
       /\ driver \in {"Converged", "BudgetExhausted"}
       /\ iterations = commits
       /\ driver = "Converged" =>
            /\ last.kind = "converged"
            /\ primal_bea(nodes, arcs) = NoArc
       /\ driver = "BudgetExhausted" => commits = budget
       /\ commits < budget => driver = "Converged"
  /\ (pc = "idle" /\ results # <<>>) =>
       results[Len(results)].iterations = commits

C5_Witness ==
  /\ pc = "exit"
  /\ driver = "Converged"
  /\ 0 < commits
  /\ commits < budget

\* C6: the cost a run reports is the sum of cost * flow over all arcs,
\* Basic, AtLower and AtUpper, on the flows the last pivot left.
C6_ReportedCost ==
  (pc = "idle" /\ results # <<>>) =>
    results[Len(results)].cost = TotalCost(arcs)

C6_Witness ==
  /\ pc = "idle"
  /\ results # <<>>
  /\ results[Len(results)].iterations > 0
  /\ results[Len(results)].cost # 0
  /\ \E a \in ArcIds : arcs[a].ident # ARC_BASIC /\ arcs[a].flow # 0

\* C7: a build with budget 0 makes no pivot and no refresh, changes no node
\* or arc field, and reports the cost of the state it started from with
\* pivot count 0.
C7_ZeroBudget ==
  budget = 0 =>
    /\ commits = 0
    /\ last = NoPivot
    /\ nodes = start.nodes
    /\ arcs = start.arcs
    /\ \A k \in 1..Len(results) :
         /\ results[k].iterations = 0
         /\ results[k].cost = TotalCost(start.arcs)

C7_Witness ==
  /\ budget = 0
  /\ pc = "idle"
  /\ results # <<>>
  /\ primal_bea(nodes, arcs) # NoArc

C10_RepeatedRuns ==
  \A k \in 1..Len(results) :
    /\ results[k].cost = results[1].cost
    /\ results[k].iterations = results[1].iterations
    /\ results[k].checksum = results[1].checksum

C10_Witness ==
  /\ budget > 0
  /\ Len(results) >= 2

C12_BalanceInvariant ==
  /\ SumTo([n \in NodeIds |-> nodes[n].balance], GRAPH_NUM_NODES) = 0
  /\ \A n \in NodeIds : nodes[n].balance = start.nodes[n].balance

C12_Witness ==
  /\ pc = "idle"
  /\ budget > 0
  /\ results # <<>>
  /\ \A n \in NodeIds : nodes[n].balance # 0
  /\ nodes[GRAPH_NUM_NODES].balance > 0

\* C13: every arc init() constructs has tail # head and both endpoints in
\* 1..N, also when the drawn head collided with the drawn tail.
C13_NoSelfLoops ==
  \A a \in ArcIds :
    /\ arcs[a].tail \in NodeIds
    /\ arcs[a].head \in NodeIds
    /\ arcs[a].tail # arcs[a].head

\* init() drew a head equal to the tail, for an arc with tail N (the
\* adjustment wraps to 1) and for an arc with a smaller tail
C13_Witness ==
  /\ pc = "idle"
  /\ results = <<>>
  /\ \E seed \in Seeds :
       LET d == SeedDraws(seed)
       IN /\ init_network(d).arcs = arcs
          /\ \E a \in ArcIds :
               d.tail[a] = d.head[a] /\ d.tail[a] = GRAPH_NUM_NODES
          /\ \E a \in ArcIds :
               d.tail[a] = d.head[a] /\ d.tail[a] < GRAPH_NUM_NODES

WordBytes(w) == <<w[2] % 256, w[2] \div 256, w[1] % 256, w[1] \div 256>>

BitXor8(a, b) ==
  LET bit(k) == ((a \div (2 ^ k)) + (b \div (2 ^ k))) % 2
  IN bit(0) + 2 * bit(1) + 4 * bit(2) + 8 * bit(3)
       + 16 * bit(4) + 32 * bit(5) + 64 * bit(6) + 128 * bit(7)

\* ((csum XOR value) * 0x01000193) mod 2^32, by long multiplication with
\* the bytes 0x93, 0x01, 0x00, 0x01 of the multiplier
FnvStep(csum, value) ==
  LET c == WordBytes(csum)
      v == WordBytes(value)
      x == [k \in 1..4 |-> BitXor8(c[k], v[k])]
      s0 == x[1] * 147
      s1 == x[2] * 147 + x[1] + (s0 \div 256)
      s2 == x[3] * 147 + x[2] + (s1 \div 256)
      s3 == x[4] * 147 + x[3] + x[1] + (s2 \div 256)
  IN <<(s3 % 256) * 256 + (s2 % 256), (s1 % 256) * 256 + (s0 % 256)>>

\* the low and the high 32 bits of a signed 64-bit cost, |cost| < 2^31
LowWord(c) == <<(c \div 65536) % 65536, c % 65536>>
HighWord(c) == LET h == (c \div 65536) \div 65536 IN <<h % 65536, h % 65536>>

FnvFold(cost, count) ==
  FnvStep(FnvStep(FnvStep(<<33052, 40389>>, LowWord(cost)), HighWord(cost)),
          <<0, count>>)

\* C15: the checksum of every result is the FNV fold, from 0x811c9dc5, of
\* the low word of the cost, the high word of the cost and the pivot count,
\* in that order; the count is the number of commits; the status is OK.
\* The values for (0, 0), (-4, 1) and (-5, 3) are 0x4ab0f7b7, 0xa37be577
\* and 0x64fa5eb4.
C15_Checksum ==
  /\ pc = "idle" => \A k \in 1..Len(results) :
       /\ results[k].status = 0
       /\ results[k].checksum = FnvFold(results[k].cost, results[k].iterations)
       /\ (results[k].cost = 0 /\ results[k].iterations = 0)
            => results[k].checksum = <<19120, 63415>>
       /\ (results[k].cost = -4 /\ results[k].iterations = 1)
            => results[k].checksum = <<41851, 58743>>
       /\ (results[k].cost = -5 /\ results[k].iterations = 3)
            => results[k].checksum = <<25850, 24244>>
  /\ (pc = "idle" /\ results # <<>>) =>
       results[Len(results)].iterations = commits

C15_Witness ==
  /\ pc = "idle"
  /\ Len(results) = 2
  /\ results[1].cost = -5 /\ results[1].iterations = 3
  /\ results[2].cost < 0 /\ results[2].iterations > 0
  /\ results[2].checksum # results[1].checksum

Potentials(ns) == [n \in NodeIds |-> ns[n].potential]

Rc(a) == arcs[a].cost - nodes[arcs[a].tail].potential + nodes[arcs[a].head].potential

Abs(x) == IF x < 0 THEN -x ELSE x

\* AtLower with rc < 0, or AtUpper with rc > 0
Attractive ==
  {a \in ArcIds : \/ arcs[a].ident = ARC_AT_LOWER /\ Rc(a) < 0
                  \/ arcs[a].ident = ARC_AT_UPPER /\ Rc(a) > 0}

\* C18: in every state pricing returns none exactly when no arc is
\* attractive, and an arc it returns is attractive (hence not Basic).
C18_PricingNone ==
  LET e == primal_bea(nodes, arcs)
  IN /\ (e = NoArc) <=> (Attractive = {})
     /\ e # NoArc => (e \in Attractive /\ arcs[e].ident # ARC_BASIC)

\* pricing returns an AtUpper arc while an AtLower arc behind which flow
\* was pushed is not attractive, under potentials that are not all 0
C18_Witness ==
  LET e == primal_bea(nodes, arcs)
  IN /\ e # NoArc
     /\ arcs[e].ident = ARC_AT_UPPER
     /\ \E a \in ArcIds : arcs[a].ident = ARC_AT_LOWER /\ a \notin Attractive
     /\ \E n \in NodeIds : nodes[n].potential # 0

\* C19: the arc pricing returns has the largest |rc| of all attractive
\* arcs, and the least index among the attractive arcs of that |rc|.
C19_PricingSelection ==
  LET e == primal_bea(nodes, arcs)
  IN e # NoArc =>
       \A a \in Attractive :
         \/ Abs(Rc(a)) < Abs(Rc(e))
         \/ Abs(Rc(a)) = Abs(Rc(e)) /\ e <= a

\* an AtLower and an AtUpper attractive arc tie in |rc| and pricing
\* returns the one of lower index
C19_Witness ==
  LET e == primal_bea(nodes, arcs)
  IN /\ e # NoArc
     /\ \E a \in Attractive :
          a > e /\ Abs(Rc(a)) = Abs(Rc(e)) /\ arcs[a].ident # arcs[e].ident

\* the nodes with a predecessor met from n upwards, n first
RECURSIVE UpPath(_, _)
UpPath(n, fuel) ==
  IF nodes[n].pred = NoNode \/ fuel = 0 THEN <<>>
  ELSE <<n>> \o UpPath(nodes[n].pred, fuel - 1)

\* the pred chain of n ends (at the node without predecessor)
Rooted(n) == Len(UpPath(n, GRAPH_NUM_NODES)) < GRAPH_NUM_NODES

\* the constraints of the ratio test for entering arc e, in the order
\* entering arc, tail path upwards, head path upwards
Constraints(e) ==
  LET bound == IF arcs[e].ident = ARC_AT_UPPER THEN arcs[e].flow
               ELSE arcs[e].capacity - arcs[e].flow
      tp == UpPath(arcs[e].tail, GRAPH_NUM_NODES)
      hp == UpPath(arcs[e].head, GRAPH_NUM_NODES)
      res(n) == arcs[nodes[n].basic_arc].capacity - arcs[nodes[n].basic_arc].flow
      fl(n) == arcs[nodes[n].basic_arc].flow
  IN <<[cap |-> bound, arc |-> e]>>
       \o [k \in 1..Len(tp) |->
             [cap |-> IF nodes[tp[k]].orientation # 0 THEN fl(tp[k]) ELSE res(tp[k]),
              arc |-> nodes[tp[k]].basic_arc]]
       \o [k \in 1..Len(hp) |->
             [cap |-> IF nodes[hp[k]].orientation # 0 THEN res(hp[k]) ELSE fl(hp[k]),
              arc |-> nodes[hp[k]].basic_arc]]

MinCap(cs) == CHOOSE m \in {cs[k].cap : k \in 1..Len(cs)} :
                \A k \in 1..Len(cs) : m <= cs[k].cap

FirstAt(cs, m) == CHOOSE k \in 1..Len(cs) :
                    cs[k].cap = m /\ \A j \in 1..(k - 1) : cs[j].cap # m

\* C20: in every state whose pred chains end, for every non-basic arc e the
\* ratio test returns the minimum of the constraints of e as delta and the
\* arc of the first constraint attaining it as leaving.
C20_RatioTest ==
  (\A n \in NodeIds : Rooted(n)) =>
    \A e \in ArcIds :
      arcs[e].ident # ARC_BASIC =>
        LET cs == Constraints(e)
            m == MinCap(cs)
        IN ratio_test(nodes, arcs, e) = [delta |-> m, leaving |-> cs[FirstAt(cs, m)].arc]

\* for an AtUpper arc the minimum is attained on the tail path and again
\* on the head path, below the bound of the arc itself
C20_Witness ==
  /\ \A n \in NodeIds : Rooted(n)
  /\ \E e \in ArcIds :
       /\ arcs[e].ident = ARC_AT_UPPER
       /\ LET cs == Constraints(e)
              m == MinCap(cs)
              tl == Len(UpPath(arcs[e].tail, GRAPH_NUM_NODES))
          IN /\ m < cs[1].cap
             /\ \E k \in 2..(tl + 1) : cs[k].cap = m
             /\ \E k \in (tl + 2)..Len(cs) : cs[k].cap = m

\* the entering arcs for which the loop of kernel_run_func calls ratio_test
\* and update_tree in this state
Called ==
  IF pc = "loop" /\ loop_continues(i, budget)
    THEN {e \in {primal_bea(nodes, arcs)} :
            /\ e # NoArc
            /\ walk_terminates(nodes, arcs[e].tail)
            /\ walk_terminates(nodes, arcs[e].head)}
    ELSE {}

\* that call: r the result of ratio_test, t the model update_tree leaves
Commit(e) ==
  LET r == ratio_test(nodes, arcs, e)
  IN [r |-> r, t |-> update_tree(nodes, arcs, e, r.leaving, r.delta)]

\* C21: an update_tree call with entering # leaving leaves the leaving arc
\* AtLower if its flow after the flow update is 0 and AtUpper otherwise, the
\* entering arc Basic, and the head of the entering arc with pred = the tail
\* of the entering arc and basic_arc = the entering arc; for delta = 0 as
\* for delta > 0.
C21_RestructuringPivot ==
  \A e \in Called :
    LET c == Commit(e)
        l == c.r.leaving
    IN l # e =>
         /\ c.t.arcs[l].ident =
              (IF c.t.arcs[l].flow = 0 THEN ARC_AT_LOWER ELSE ARC_AT_UPPER)
         /\ c.t.arcs[e].ident = ARC_BASIC
         /\ c.t.nodes[arcs[e].head].pred = arcs[e].tail
         /\ c.t.nodes[arcs[e].head].basic_arc = e

\* a restructuring pivot with delta = 0 has just been made and left the
\* leaving arc AtUpper
C21_Witness ==
  /\ pc = "loop"
  /\ last.kind = "pivot"
  /\ last.entering # last.leaving
  /\ last.delta = 0
  /\ arcs[last.leaving].ident = ARC_AT_UPPER
  /\ arcs[last.leaving].flow > 0
  /\ arcs[last.entering].ident = ARC_BASIC
  /\ nodes[arcs[last.entering].head].basic_arc = last.entering

\* the basic_arc of the nodes on the pred path from n upwards
PathArcs(n) ==
  LET p == UpPath(n, GRAPH_NUM_NODES)
  IN {nodes[p[k]].basic_arc : k \in 1..Len(p)}

\* the signed change update_tree makes to the flow of the entering arc as
\* the entering arc (lines 182-186)
EnteringStep(e, delta) == IF arcs[e].ident = ARC_AT_LOWER THEN delta ELSE -delta

C23_RestructuringFrame ==
  \A e \in Called :
    LET c == Commit(e)
    IN c.r.leaving # e =>
         /\ \A n \in NodeIds \ {arcs[e].head} : c.t.nodes[n] = nodes[n]
         /\ \A n \in NodeIds :
              /\ c.t.nodes[n].depth = nodes[n].depth
              /\ c.t.nodes[n].potential = nodes[n].potential
              /\ c.t.nodes[n].balance = nodes[n].balance

\* a restructuring pivot has just re-parented the head of its entering arc
\* to a node that was not its pred, while another node still has the
\* leaving arc, now non-basic, as its basic_arc
C23_Witness ==
  /\ pc = "loop"
  /\ last.kind = "pivot"
  /\ last.entering # last.leaving
  /\ ~last.refreshed
  /\ arcs[last.leaving].ident # ARC_BASIC
  /\ LET h == arcs[last.entering].head
     IN /\ nodes[h].pred = arcs[last.entering].tail
        /\ nodes[h].basic_arc = last.entering
        /\ start.nodes[h].pred # nodes[h].pred
        /\ \E n \in NodeIds \ {h} :
             /\ nodes[n].basic_arc = last.leaving
             /\ nodes[n].pred # NoNode

\* C24: after init() and after every completed pivot, the basic_arc of
\* every non-root node v is an arc in state Basic whose two endpoints are
\* v and pred(v), and no arc is the basic_arc of two nodes.
C24_TreePointers ==
  AtBoundary =>
    /\ \A v \in NodeIds \ {1} :
         /\ nodes[v].basic_arc \in ArcIds
         /\ arcs[nodes[v].basic_arc].ident = ARC_BASIC
         /\ {arcs[nodes[v].basic_arc].tail, arcs[nodes[v].basic_arc].head}
              = {v, nodes[v].pred}
    /\ \A u, v \in NodeIds \ {1} :
         u # v => nodes[u].basic_arc # nodes[v].basic_arc

\* the node without pred that the pred chain of n reaches in at most fuel
\* steps in the nodes array ns, NoNode if there is none
RECURSIVE ChainTop(_, _, _)
ChainTop(ns, n, fuel) ==
  IF ns[n].pred = NoNode THEN n
  ELSE IF fuel = 0 THEN NoNode
  ELSE ChainTop(ns, ns[n].pred, fuel - 1)

\* following pred from every node reaches node 1 in at most N-1 steps
RootedIn(ns) == \A n \in NodeIds : ChainTop(ns, n, GRAPH_NUM_NODES - 1) = 1

RefreshInputs == {Commit(e).t : e \in {x \in Called : refresh_due(i)}}

\* the nodes a refresh with result p has enqueued
Reached(p) == {p.queue[k] : k \in 1..Len(p.queue)}

\* arc a is Basic and its endpoints are v and the pred of v
Joins(ns, as, a, v) ==
  /\ as[a].ident = ARC_BASIC
  /\ {as[a].tail, as[a].head} = {v, ns[v].pred}

\* the potential of v is that of its pred + cost(a) if a points to v and
\* that of its pred - cost(a) if a points to the pred
Propagated(ns, as, a, v) ==
  IF as[a].head = v
    THEN ns[v].potential = ns[ns[v].pred].potential + as[a].cost
    ELSE ns[v].potential = ns[ns[v].pred].potential - as[a].cost

\* C28: after a refresh that returns, the root has potential 0, every other
\* reached node has the potential of its pred plus or minus the cost of a
\* Basic arc joining them, according to the direction of that arc, every
\* node not reached has the potential it had, and no other field of a node
\* has changed (the refresh writes no arc).
C28_RefreshResult ==
  \A t \in RefreshInputs :
    LET p == update_potentials(t.nodes, t.arcs)
    IN ~p.overflow =>
         /\ p.nodes[1].potential = 0
         /\ \A v \in Reached(p) \ {1} :
              \E a \in ArcIds : Joins(p.nodes, t.arcs, a, v)
                                /\ Propagated(p.nodes, t.arcs, a, v)
         /\ \A v \in NodeIds \ Reached(p) :
              p.nodes[v].potential = t.nodes[v].potential
         /\ \A v \in NodeIds :
              [p.nodes[v] EXCEPT !.potential = 0] = [t.nodes[v] EXCEPT !.potential = 0]

\* a refresh has just returned after giving a reached node a potential
\* other than the one it had when the run began, by the rule for a Basic
\* arc joining it to its pred, while a node it did not reach kept a
\* non-zero potential
C28_Witness ==
  /\ pc = "loop"
  /\ last.kind = "pivot"
  /\ last.refreshed
  /\ LET p == update_potentials(nodes, arcs)
     IN /\ ~p.overflow
        /\ \E v \in Reached(p) \ {1} :
             /\ \E a \in ArcIds : /\ Joins(nodes, arcs, a, v)
                                  /\ Propagated(nodes, arcs, a, v)
             /\ nodes[v].potential # start.nodes[v].potential
        /\ \E u \in NodeIds \ Reached(p) : nodes[u].potential # 0

QueueBounded(ns, as) ==
  LET p == update_potentials(ns, as)
  IN /\ ~p.overflow
     /\ Len(p.queue) <= GRAPH_NUM_NODES
     /\ \A j, k \in 1..Len(p.queue) : j # k => p.queue[j] # p.queue[k]

====
